---- MODULE Spec2Model ----
(***************************************************************************)
(* A model of the reflective pretty-printer of efibootctl                  *)
(* (src/pkg/printer/color.go, src/unnamed/part_000) and of the domain type *)
(* BootIndex (src/pkg/efibootctl/cli.go).                                  *)
(*                                                                         *)
(* Text is a sequence of tokens (strings).  A reflect.Value is a record    *)
(* with its Kind, its Type().String(), its read-only flag (flagRO, set on  *)
(* values obtained from unexported struct fields) and the payload of its   *)
(* kind.  Maps, slices, arrays and pointers refer to a fixed heap by       *)
(* address, so that values can be cyclic.  The recursion of Printer.Format *)
(* is a stack of Printer frames: Call runs one Format call up to its first *)
(* nested Format call, Return hands a finished child's String() to the     *)
(* caller, which runs on to its next nested call.  The command-line run    *)
(* mainE (src/pkg/efibootctl/cli.go) is the bottom frame of such a stack,  *)
(* one action per statement, over the outcomes of the reads of the EFI     *)
(* variables.                                                              *)
(***************************************************************************)
EXTENDS Integers, Sequences, FiniteSets

VARIABLES cfg, root, visited, stack, status, out, prev, efi, err, stderr

\* mainE's side: the EFI variable store behind the context c, mainE's named
\* result err, and what was written to os.Stderr.
cliVars == <<efi, err, stderr>>

vars == <<cfg, root, visited, stack, status, out, prev, efi, err, stderr>>

(***************************************************************************)
(* Bounds of the model.                                                    *)
(***************************************************************************)
\* Number of entries of the generated maps.
MaxKeys == 3
\* Longest generated short sequence (group size 16 plus a partial group).
MaxSeqLen == 20
\* Largest generated small scalar.
MaxSmall == 2
\* The scheme values tried are 0..MaxColor, with and without the NoColor bit.
MaxColor == 511

(***************************************************************************)
(* Program constants.                                                      *)
(***************************************************************************)
\* printSlice: "Fold a large buffer".
FoldLimit == 1024
\* printSlice: group sizes per element kind, and the string budget.
GroupUint8 == 16
GroupUint16 == 8
GroupUint32 == 8
GroupUint64 == 4
StringBudget == 36
\* color constants.
NoColor == 32768
maskForeground == 15
bitsBackground == 4
bitsBold == 8
ansiForegroundOffset == 29
ansiBackgroundOffset == 39

(***************************************************************************)
(* Numbers as text.                                                        *)
(***************************************************************************)
LowerDigits == <<"0", "1", "2", "3", "4", "5", "6", "7", "8", "9",
                 "a", "b", "c", "d", "e", "f">>

UpperDigits == <<"0", "1", "2", "3", "4", "5", "6", "7", "8", "9",
                 "A", "B", "C", "D", "E", "F">>

RECURSIVE Digits(_, _)
\* The digits of n >= 0 in the given base, most significant first.
Digits(n, base) ==
    IF n < base THEN <<n>> ELSE Append(Digits(n \div base, base), n % base)

RECURSIVE ZeroPad(_, _)
\* fmt's %0Nd / %0Nx: zeros on the left up to the width, never truncating.
ZeroPad(ds, width) ==
    IF Len(ds) >= width THEN ds ELSE ZeroPad(<<0>> \o ds, width)

DigitText(ds, table) == [i \in 1..Len(ds) |-> table[ds[i] + 1]]

\* fmt.Sprintf("%d", n) for n >= 0.
Decimal(n) == DigitText(Digits(n, 10), LowerDigits)

\* fmt.Sprintf("%x", n) padded to width digits.
HexLower(n, width) == DigitText(ZeroPad(Digits(n, 16), width), LowerDigits)

\* fmt.Sprintf("%04X", n).
HexUpper(n, width) == DigitText(ZeroPad(Digits(n, 16), width), UpperDigits)

RECURSIVE Grouped(_)
\* message.NewPrinter(language.English): digits grouped by three with ",".
Grouped(txt) ==
    IF Len(txt) <= 3 THEN txt
    ELSE Grouped(SubSeq(txt, 1, Len(txt) - 3)) \o <<",">>
         \o SubSeq(txt, Len(txt) - 2, Len(txt))

\* Printer.fmtOrLocalizedSprintf for an integer verb.
fmtOrLocalizedSprintf(c, n) ==
    LET sign == IF n < 0 THEN <<"-">> ELSE <<>>
        mag  == Decimal(IF n < 0 THEN 0 - n ELSE n)
    IN  sign \o (IF c.thousandsSeparator THEN Grouped(mag) ELSE mag)

(***************************************************************************)
(* Colors.                                                                 *)
(***************************************************************************)
RECURSIVE BitOr(_, _)
BitOr(a, b) ==
    IF a = 0 THEN b
    ELSE IF b = 0 THEN a
    ELSE 2 * BitOr(a \div 2, b \div 2) + (IF a % 2 = 1 \/ b % 2 = 1 THEN 1 ELSE 0)

\* Foreground colors: iota | NoColor.
Foreground(i) == BitOr(i, NoColor)
Red == Foreground(2)
Green == Foreground(3)
Yellow == Foreground(4)
Blue == Foreground(5)
Magenta == Foreground(6)
Cyan == Foreground(7)
Bold == BitOr(2 ^ bitsBold, NoColor)

DefaultScheme ==
    [Bool            |-> BitOr(Cyan, Bold),
     Integer         |-> BitOr(Blue, Bold),
     Float           |-> BitOr(Magenta, Bold),
     String          |-> Red,
     StringQuotation |-> BitOr(Red, Bold),
     EscapedChar     |-> BitOr(Magenta, Bold),
     FieldName       |-> Yellow,
     PointerAdress   |-> BitOr(Blue, Bold),
     Nil             |-> BitOr(Cyan, Bold),
     Time            |-> BitOr(Blue, Bold),
     StructName      |-> Green,
     ObjectLength    |-> Blue]

\* "\033[%dm".
Ansi(n) == <<"ESC[">> \o Decimal(n) \o <<"m">>

AnsiReset == <<"ESC[", "0", "m">>

\* ColorizeText with its early return looking at the foreground alone.
ColorizeTextForegroundOnly(text, color) ==
    LET foreground == color % (maskForeground + 1)
    IN  IF foreground = 0 THEN text
        ELSE Ansi(foreground + ansiForegroundOffset) \o text \o AnsiReset

ColorizeText(text, color) ==
    LET foreground == color % (maskForeground + 1)
        background == (color \div (2 ^ bitsBackground)) % 16
        bold       == (color \div (2 ^ bitsBold)) % 2
        modBold       == IF bold > 0 THEN Ansi(1) ELSE <<>>
        modForeground == IF foreground > 0
                         THEN Ansi(foreground + ansiForegroundOffset) ELSE <<>>
        modBackground == IF background > 0
                         THEN Ansi(background + ansiBackgroundOffset) ELSE <<>>
    IN  IF foreground = 0 /\ background = 0 /\ bold = 0
        THEN text
        ELSE modForeground \o modBackground \o modBold \o text \o AnsiReset

\* ColorScheme.Get.  c.colorScheme is "nil", "default" (DefaultScheme) or
\* "uniform": a scheme whose twelve fields all hold the value c.color.
Get(c, field) ==
    IF c.colorScheme = "default" THEN DefaultScheme[field] ELSE c.color

\* Printer.Colorize.
Colorize(c, text, field) ==
    IF c.colorScheme # "nil" THEN ColorizeText(text, Get(c, field))
    ELSE text

(***************************************************************************)
(* Types and values (reflect.Type, reflect.Value).                         *)
(*                                                                         *)
(* A type is its String() as colorizeType's regular expressions split it:  *)
(* pre is "slice" for a leading "[]", "array" for a leading "[num]", pkg   *)
(* is the text before the single dot ("" when there is none) and name the  *)
(* rest.  pp tells whether the type's method set holds PrettyPrint.        *)
(***************************************************************************)
Ty(pre, num, pkg, name) == [pre |-> pre, num |-> num, pkg |-> pkg, name |-> name]

Plain(name) == Ty("", 0, "", name)
SliceOf(pkg, name) == Ty("slice", 0, pkg, name)
ArrayOf(n, pkg, name) == Ty("array", n, pkg, name)

TBootIndex == Ty("", 0, "efibootctl", "BootIndex")
TBootIndexPtr == Ty("", 0, "*efibootctl", "BootIndex")
TStringSlice == SliceOf("", "string")
TAny == Plain("interface {}")

\* The types of the repository that implement PrettyPrint(*Printer): BootIndex
\* by its value receiver, and so *BootIndex as well.
HasPrettyPrint(t) == t \in {TBootIndex, TBootIndexPtr}

VInvalid == [kind |-> "invalid", type |-> Plain(""), ro |-> FALSE]
VBool(b) == [kind |-> "bool", type |-> Plain("bool"), ro |-> FALSE, b |-> b]
VInt(n) == [kind |-> "int", type |-> Plain("int"), ro |-> FALSE, n |-> n]
VUint(k, n) == [kind |-> k, type |-> Plain(k), ro |-> FALSE, n |-> n]
\* A non-negative float64 ip.fp (fp in millionths), or NaN.
VFloat(ip, fp) ==
    [kind |-> "float64", type |-> Plain("float64"), ro |-> FALSE,
     nan |-> FALSE, ip |-> ip, fp |-> fp]
VNaN ==
    [kind |-> "float64", type |-> Plain("float64"), ro |-> FALSE,
     nan |-> TRUE, ip |-> 0, fp |-> 0]
VStr(chars) ==
    [kind |-> "string", type |-> Plain("string"), ro |-> FALSE, chars |-> chars]
VBootIndex(n) == [kind |-> "uint16", type |-> TBootIndex, ro |-> FALSE, n |-> n]
VFunc(a) == [kind |-> "func", type |-> Plain("func()"), ro |-> FALSE, addr |-> a]
VChan(a) == [kind |-> "chan", type |-> Plain("chan int"), ro |-> FALSE, addr |-> a]
\* An interface-kind value (a field, element or key of interface type).
VIface(e) == [kind |-> "interface", type |-> TAny, ro |-> FALSE, elem |-> e]
\* etype is the pointee's type; addr 0 is the nil pointer.
VPtr(t, et, a) ==
    [kind |-> "ptr", type |-> t, ro |-> FALSE, etype |-> et, addr |-> a]
\* addr is the map header's address; the entries live in MapEntries(addr).
VMap(t, a, n) == [kind |-> "map", type |-> t, ro |-> FALSE, addr |-> a, len |-> n]
\* addr is the data pointer (0: a nil slice); the elements are
\* StoreElem(store, off + i); typed tells whether the static type is exactly
\* []string (the type assertion of stringGroupSize).
VSlice(t, ek, a, st, off, n) ==
    [kind |-> "slice", type |-> t, ro |-> FALSE, ekind |-> ek, addr |-> a,
     store |-> st, off |-> off, len |-> n]
VArray(t, ek, st, n) ==
    [kind |-> "array", type |-> t, ro |-> FALSE, ekind |-> ek, addr |-> 0,
     store |-> st, off |-> 0, len |-> n]
VStruct(t, fs) == [kind |-> "struct", type |-> t, ro |-> FALSE, fields |-> fs]

\* reflect.StructField with the pp tag as strings.Split(tag, ",") gives it
\* (<<>>: no pp tag).
Fld(name, exported, tag, val) ==
    [name |-> name, exported |-> exported, tag |-> tag, val |-> val]

\* flagRO is sticky: Field, Elem, Index, MapKeys and MapIndex hand it on.
Derived(parent, child) == [child EXCEPT !.ro = @ \/ parent.ro]

\* Value.Field(i).
Field(v, i) ==
    LET f == v.fields[i]
    IN  [f.val EXCEPT !.ro = @ \/ v.ro \/ ~f.exported]

RECURSIVE Repeat(_, _)
Repeat(tok, n) == IF n <= 0 THEN <<>> ELSE Append(Repeat(tok, n - 1), tok)

(***************************************************************************)
(* The heap: what pointers point to, the entries of maps and the elements  *)
(* of slices and arrays.  (Filled in by the catalogue of values below.)    *)
(***************************************************************************)
TNode == Ty("", 0, "main", "Node")
TNodePtr == Ty("", 0, "*main", "Node")
TnodeLower == Ty("", 0, "main", "node")
TnodeLowerPtr == Ty("", 0, "*main", "node")
TMapStrAny == Plain("map[string]interface {}")
TMapAnyInt == Plain("map[interface {}]int")
TMapIntInt == Plain("map[int]int")
TMapStrInt == Plain("map[string]int")
TAnySlice == SliceOf("", "interface {}")

StrA == VStr(<<"a">>)
StrAB == VStr(<<"a", "b">>)
StrB == VStr(<<"b">>)
StrSelf == VStr(<<"s", "e", "l", "f">>)
StrX == VStr(<<"x">>)
StrEmpty == VStr(<<>>)
\* "a\nb": strconv.Quote escapes the newline.
StrEsc == VStr(<<"a", "\n", "b">>)
StrLong == VStr(Repeat("a", StringBudget + 1))

\* The keys of map[interface {}]int: values of different dynamic types.
AnyKey(i) ==
    CASE i = 1 -> VIface(VInt(1))
      [] i = 2 -> VIface(StrA)
      [] i = 3 -> VIface(VInt(0))
      [] i = 4 -> VIface(VBool(TRUE))
      [] OTHER -> VIface(VUint("uint8", i))

StrKey(i) ==
    CASE i = 1 -> StrB
      [] i = 2 -> StrA
      [] i = 3 -> StrAB
      [] OTHER -> VStr(Repeat("c", i))

\* Pointer(): addresses 1.. are those of the cyclic values, 100 + n, 200 + n,
\* 300 + n those of the generated maps, 1000 + those of slice data.
SelfMap == VMap(TMapStrAny, 1, 1)
SelfSlice == VSlice(TAnySlice, "interface", 1002, "selfslice", 0, 1)
SelfPtr == VPtr(TNodePtr, TNode, 3)
SelfPtrLower == VPtr(TnodeLowerPtr, TnodeLower, 4)
RingPtrA == VPtr(TNodePtr, TNode, 5)
RingPtrB == VPtr(TNodePtr, TNode, 6)
\* m["self"] = m; m["x"] = []string{""}
SelfMapBad == VMap(TMapStrAny, 7, 2)
EmptyStrings == VSlice(TStringSlice, "string", 1008, "emptystr", 0, 1)

IntMap(n) == VMap(TMapIntInt, 100 + n, n)
StrMap(n) == VMap(TMapStrInt, 200 + n, n)
AnyMap(n) == VMap(TMapAnyInt, 300 + n, n)

\* The entries of the map at an address, in some fixed order (the order in
\* which MapKeys delivers them is chosen when the map is sorted).
MapEntries(a) ==
    CASE a = 1 -> <<[k |-> StrSelf, v |-> VIface(SelfMap)]>>
      [] a = 7 -> <<[k |-> StrSelf, v |-> VIface(SelfMapBad)],
                    [k |-> StrX, v |-> VIface(EmptyStrings)]>>
      [] a > 100 /\ a < 200 ->
             [i \in 1..(a - 100) |-> [k |-> VInt(i), v |-> VInt(10 * i)]]
      [] a > 200 /\ a < 300 ->
             [i \in 1..(a - 200) |-> [k |-> StrKey(i), v |-> VInt(i)]]
      [] a > 300 /\ a < 400 ->
             [i \in 1..(a - 300) |-> [k |-> AnyKey(i), v |-> VInt(i)]]
      [] OTHER -> <<>>

NodeOf(t, exported, next) ==
    VStruct(t, <<Fld(IF exported THEN "Next" ELSE "next", exported, <<>>, next)>>)

\* Value.Elem() of a pointer: the value at the address.
Deref(a) ==
    CASE a = 3 -> NodeOf(TNode, TRUE, SelfPtr)
      [] a = 4 -> NodeOf(TnodeLower, FALSE, SelfPtrLower)
      [] a = 5 -> NodeOf(TNode, TRUE, RingPtrB)
      [] a = 6 -> NodeOf(TNode, TRUE, RingPtrA)
      [] a = 8 -> VInt(7)
      [] a = 9 -> VBootIndex(1)
      [] a = 20 -> VArray(ArrayOf(2, "", "int"), "int", "int", 2)
      [] OTHER -> VInvalid

\* Element i (from 0) of a backing array.
StoreElem(st, i) ==
    CASE st = "uint8" -> VUint("uint8", i % 256)
      [] st = "uint16" -> VUint("uint16", 256 * i)
      [] st = "uint32" -> VUint("uint32", 65536 * i)
      [] st = "uint64" -> VUint("uint64", 65536 * i + 1)
      [] st = "int" -> VInt(i - 1)
      [] st = "bootorder" -> VBootIndex(IF i = 0 THEN 1 ELSE i - 1)
      [] st = "string" -> IF i % 2 = 0 THEN StrAB ELSE StrA
      [] st = "emptystr" -> StrEmpty
      [] st = "longstr" -> IF i = 0 THEN StrLong ELSE StrA
      [] st = "selfslice" -> VIface(SelfSlice)
      [] st = "any" -> IF i % 2 = 0 THEN VIface(VBootIndex(i)) ELSE VIface(VInvalid)
      [] OTHER -> VInvalid

\* Value.Index(i).
Index(v, i) == Derived(v, StoreElem(v.store, v.off + i))

\* Value.Elem() of a pointer.
Elem(v) == Derived(v, Deref(v.addr))

(***************************************************************************)
(* The Deterministic Ordering Module (sortedMap, sortMap).                 *)
(***************************************************************************)
IntKinds == {"int", "int8", "int16", "int32", "int64"}
UintKinds == {"uint", "uint8", "uint16", "uint32", "uint64", "uintptr"}

\* Byte order of the characters the model's strings use.
Alphabet == <<"\n", "a", "b", "c", "e", "f", "l", "s", "x">>
CharCode(ch) == CHOOSE i \in 1..Len(Alphabet) : Alphabet[i] = ch

RECURSIVE StringLess(_, _)
\* Go's a < b on strings: lexicographic byte comparison.
StringLess(a, b) ==
    IF b = <<>> THEN FALSE
    ELSE IF a = <<>> THEN TRUE
    ELSE IF CharCode(Head(a)) # CharCode(Head(b))
         THEN CharCode(Head(a)) < CharCode(Head(b))
    ELSE StringLess(Tail(a), Tail(b))

\* sortedMap.Less on two keys.
Less(a, b) ==
    IF a.type # b.type THEN FALSE
    ELSE CASE a.kind \in IntKinds -> a.n < b.n
           [] a.kind \in UintKinds -> a.n < b.n
           [] a.kind = "string" -> StringLess(a.chars, b.chars)
           [] a.kind = "float64" ->
                  IF a.nan \/ b.nan THEN FALSE
                  ELSE a.ip < b.ip \/ (a.ip = b.ip /\ a.fp < b.fp)
           [] a.kind = "bool" -> ~a.b /\ b.b
           [] a.kind = "ptr" -> a.addr < b.addr
           [] a.kind = "struct" -> Len(a.fields) < Len(b.fields)
           [] a.kind = "array" -> a.len < b.len
           [] OTHER -> FALSE

\* sortedMap.Swap.
Swap(es, i, j) == [es EXCEPT ![i] = es[j], ![j] = es[i]]

RECURSIVE SinkDownPastTies(_, _)
\* SinkDown comparing the other way round: an element also moves past the
\* elements it ties with.
SinkDownPastTies(es, j) ==
    IF j > 1 /\ ~Less(es[j - 1].k, es[j].k)
    THEN SinkDownPastTies(Swap(es, j, j - 1), j - 1)
    ELSE es

RECURSIVE SinkDown(_, _)
\* The inner loop of sort's insertionSort:
\* for j := i; j > a && data.Less(j, j-1); j-- { data.Swap(j, j-1) }.
SinkDown(es, j) ==
    IF j > 1 /\ Less(es[j].k, es[j - 1].k)
    THEN SinkDown(Swap(es, j, j - 1), j - 1)
    ELSE es

RECURSIVE InsertionSort(_, _)
InsertionSort(es, i) ==
    IF i > Len(es) THEN es ELSE InsertionSort(SinkDown(es, i), i + 1)

\* sort.Stable on at most 20 elements is one insertion sort.
StableSort(es) == InsertionSort(es, 2)

\* Value.MapKeys with Value.MapIndex: the entries in the order ord in which
\* the runtime delivers them.
MapKeys(v, ord) ==
    LET es == MapEntries(v.addr)
    IN  [i \in 1..Len(ord) |->
            [k |-> Derived(v, es[ord[i]].k), v |-> Derived(v, es[ord[i]].v)]]

\* sortMap: the delivered entries, then sort.Stable.
sortMap(v, ord) == StableSort(MapKeys(v, ord))

\* The orders in which reflect's MapKeys may deliver n keys.
IterationOrders(n) ==
    {p \in [1..n -> 1..n] : \A i, j \in 1..n : p[i] = p[j] => i = j}

(***************************************************************************)
(* valueIsZero.                                                            *)
(***************************************************************************)
RECURSIVE valueIsZero(_)
valueIsZero(v) ==
    CASE v.kind = "bool" -> ~v.b
      [] v.kind \in IntKinds -> v.n = 0
      [] v.kind \in UintKinds -> v.n = 0
      [] v.kind = "float64" -> ~v.nan /\ v.ip = 0 /\ v.fp = 0
      [] v.kind = "array" -> \A i \in 0..(v.len - 1) : valueIsZero(Index(v, i))
      [] v.kind \in {"chan", "func", "map", "ptr", "slice"} -> v.addr = 0
      [] v.kind = "interface" -> v.elem.kind = "invalid"
      [] v.kind = "string" -> Len(v.chars) = 0
      [] v.kind = "struct" ->
             \A i \in 1..Len(v.fields) : valueIsZero(Field(v, i))
      [] OTHER -> FALSE

(***************************************************************************)
(* The Printer.  A frame is one Printer made by Format (pp): its value,    *)
(* its depth, what it has printed to its tabwriter, and where its print    *)
(* function waits for a nested Format call to return (pc):                 *)
(*   "top"      the caller of the top-level Format                         *)
(*   "mainE"    mainE between two statements (i: the next statement)       *)
(*   "field"    PrintFieldValue, waiting for its Format call               *)
(*   "map"      printMap's loop (sub 0: the key, sub 1: the value)         *)
(*   "struct"   printStruct's loop over the fields that passed the filter  *)
(*   "inline"   printSlice, Len < groupSize                                *)
(*   "grouped"  printSlice's multi-line loop, groupSize > 0                *)
(*   "lines"    printSlice's multi-line loop, groupSize = 0                *)
(*   "ptr"      printPtr, "iface" printInterface                           *)
(*   "done"     the print function has returned                            *)
(***************************************************************************)
NewPrinter(v, depth) ==
    [v |-> v, depth |-> depth, buf |-> <<>>, pc |-> "done", i |-> 0,
     sub |-> 0, mk |-> <<>>, es |-> <<>>, fs |-> <<>>, gs |-> 0, hold |-> <<>>]

\* What one Format call did up to its first nested call: the frame, the
\* visited set, and the panic it ended in ("" when it did not panic).
Ran(f, vis) == [f |-> f, vis |-> vis, err |-> ""]
Panicked(f, vis, msg) == [f |-> f, vis |-> vis, err |-> msg]

\* Printer.Print (Print is fmt.Fprint to the tabwriter).
Write(f, text) == [f EXCEPT !.buf = @ \o text]

\* Printer.Indent.
Indent(f) == Repeat("\t", f.depth)

\* Printer.IndentPrint.
IndentPrint(f, text) == Write(f, Indent(f) \o text)

\* Printer.nil.
nil(c) == Colorize(c, <<"nil">>, "Nil")

\* Printer.colorizeType.
colorizeType(c, t) ==
    LET prefix == CASE t.pre = "slice" -> <<"[]">>
                    [] t.pre = "array" ->
                           <<"[">> \o Colorize(c, Decimal(t.num), "ObjectLength")
                           \o <<"]">>
                    [] OTHER -> <<>>
    IN  IF t.pkg # ""
        THEN prefix \o <<t.pkg, ".">> \o Colorize(c, <<t.name>>, "StructName")
        ELSE prefix \o Colorize(c, <<t.name>>, "StructName")

\* Printer.typeString, Printer.elemTypeString.
typeString(c, v) == colorizeType(c, v.type)
elemTypeString(c, v) == colorizeType(c, v.etype)

\* Printer.pointerAddr.
pointerAddr(c, v) ==
    Colorize(c, <<"0x">> \o HexLower(v.addr, 1), "PointerAdress")

\* HexWidth with the uint32 case a copy of the uint16 one.
HexWidthCopied(kind) ==
    CASE kind = "uint8" -> 2
      [] kind = "uint16" -> 4
      [] kind = "uint32" -> 4
      [] kind = "uint64" -> 16
      [] OTHER -> 1

\* The digits of fmt's fixed-width hexadecimal verbs per unsigned kind.
HexWidth(kind) ==
    CASE kind = "uint8" -> 2
      [] kind = "uint16" -> 4
      [] kind = "uint32" -> 8
      [] kind = "uint64" -> 16
      [] OTHER -> 1

\* Printer.raw.
raw(c, v) ==
    CASE v.kind = "bool" -> IF v.b THEN <<"true">> ELSE <<"false">>
      [] v.kind \in IntKinds -> fmtOrLocalizedSprintf(c, v.n)
      [] v.kind \in {"uint", "uintptr"} ->
             IF c.decimalUint THEN fmtOrLocalizedSprintf(c, v.n)
             ELSE <<"0x">> \o HexLower(v.n, 1)
      [] v.kind = "uint8" ->
             IF c.decimalUint THEN Decimal(v.n)
             ELSE <<"0x">> \o HexLower(v.n, HexWidth(v.kind))
      [] v.kind \in {"uint16", "uint32", "uint64"} ->
             IF c.decimalUint THEN fmtOrLocalizedSprintf(c, v.n)
             ELSE <<"0x">> \o HexLower(v.n, HexWidth(v.kind))
      [] v.kind = "float64" ->
             IF v.nan THEN <<"NaN">>
             ELSE fmtOrLocalizedSprintf(c, v.ip) \o <<".">>
                  \o DigitText(ZeroPad(Digits(v.fp, 10), 6), LowerDigits)
      [] OTHER -> <<"%#v">>

\* strconv.Quote of one character: the newline is the model's one character
\* that Quote escapes.
IsEscaped(ch) == ch = "\n"
Quoted(ch) == IF IsEscaped(ch) THEN "\\n" ELSE ch

RECURSIVE QuotedRuns(_, _, _)
\* printString's loop: runs of plain characters are printed in the string
\* color, each escape sequence in the escape color.
QuotedRuns(c, chars, run) ==
    LET flush == IF run = <<>> THEN <<>> ELSE Colorize(c, run, "String")
    IN  IF chars = <<>> THEN flush
        ELSE IF IsEscaped(Head(chars))
             THEN flush \o Colorize(c, <<Quoted(Head(chars))>>, "EscapedChar")
                  \o QuotedRuns(c, Tail(chars), <<>>)
        ELSE QuotedRuns(c, Tail(chars), Append(run, Head(chars)))

\* Printer.printString.
printString(c, f) ==
    Write(f, Colorize(c, <<"\"">>, "StringQuotation")
             \o QuotedRuns(c, f.v.chars, <<>>)
             \o Colorize(c, <<"\"">>, "StringQuotation"))

\* time.Time and big.Int are structs that printStruct does not iterate.
TTime == Ty("", 0, "time", "Time")
TBigInt == Ty("", 0, "big", "Int")
VTime ==
    [kind |-> "struct", type |-> TTime, ro |-> FALSE, fields |-> <<>>,
     tm |-> <<"2022", "05", "14", "12", "11", "36", "UTC">>]
VBigInt(n) ==
    [kind |-> "struct", type |-> TBigInt, ro |-> FALSE, fields |-> <<>>, n |-> n]

\* Printer.printTime.
printTime(c, f) ==
    LET t == f.v.tm
        col(i) == Colorize(c, <<t[i]>>, "Time")
    IN  Write(f, col(1) \o <<"-">> \o col(2) \o <<"-">> \o col(3) \o <<" ">>
                 \o col(4) \o <<":">> \o col(5) \o <<":">> \o col(6) \o <<" ">>
                 \o col(7))

\* printMap up to its first nested Format call.
printMap(c, vis, f, ord) ==
    LET v == f.v
    IN  IF v.len = 0 THEN Ran(Write(f, typeString(c, v) \o <<"{}">>), vis)
        ELSE IF v.addr \in vis
             THEN Ran(Write(f, typeString(c, v) \o <<"{...}">>), vis)
        ELSE Ran([Write(f, typeString(c, v) \o <<"{", "\n">>)
                     EXCEPT !.depth = @ + 1, !.pc = "map", !.i = 1, !.sub = 0,
                            !.mk = MapKeys(v, ord), !.es = sortMap(v, ord)],
                 vis \cup {v.addr})

\* Omitted with the omitempty test lacking its valueIsZero operand.
OmittedWhateverValue(c, v, i) ==
    LET field == v.fields[i]
        parts == field.tag
    IN  IF c.exportedOnly /\ ~field.exported THEN TRUE
        ELSE IF parts = <<>> THEN FALSE
        ELSE IF Len(parts) = 2 /\ parts[2] = "omitempty" THEN TRUE
        ELSE parts[1] = "-"

\* printStruct's filter: whether field i is left out of the output.
Omitted(c, v, i) ==
    LET field == v.fields[i]
        parts == field.tag
    IN  IF c.exportedOnly /\ ~field.exported THEN TRUE
        ELSE IF parts = <<>> THEN FALSE
        ELSE IF Len(parts) = 2 /\ parts[2] = "omitempty" /\ valueIsZero(Field(v, i))
             THEN TRUE
        ELSE parts[1] = "-"

\* The name printStruct prints for field i.
FieldName(v, i) ==
    LET field == v.fields[i]
    IN  IF field.tag # <<>> /\ field.tag[1] # "" THEN field.tag[1] ELSE field.name

\* printStruct up to its first nested Format call.
printStruct(c, vis, f) ==
    LET v == f.v
        fields == SelectSeq([i \in 1..Len(v.fields) |-> i],
                            LAMBDA i : ~Omitted(c, v, i))
    IN  IF ~v.ro /\ v.type = TTime THEN Ran(printTime(c, f), vis)
        ELSE IF ~v.ro /\ v.type = TBigInt
             THEN Ran(Write(f, Colorize(c, Decimal(v.n), "Integer")), vis)
        ELSE IF Len(fields) = 0
             THEN Ran(Write(f, typeString(c, v) \o <<"{}">>), vis)
        ELSE Ran([Write(f, typeString(c, v) \o <<"{", "\n">>)
                     EXCEPT !.depth = @ + 1, !.pc = "struct", !.i = 1,
                            !.fs = fields],
                 vis)

RECURSIVE MaxLen(_, _, _)
\* stringGroupSize's loop: the length of the longest string.
MaxLen(v, i, max) ==
    IF i >= v.len THEN max
    ELSE LET l == Len(Index(v, i).chars)
         IN  MaxLen(v, i + 1, IF l > max THEN l ELSE max)

stringGroupSize(v) == MaxLen(v, 0, 0)

\* printSlice's switch on the element kind (0: no grouping, -1: the panic of
\* the []string type assertion, -2: that of the division by zero).
groupSize(v) ==
    CASE v.ekind = "uint8" -> GroupUint8
      [] v.ekind = "uint16" -> GroupUint16
      [] v.ekind = "uint32" -> GroupUint32
      [] v.ekind = "uint64" -> GroupUint64
      [] v.ekind = "string" ->
             IF v.type # TStringSlice THEN -1
             ELSE IF stringGroupSize(v) = 0 THEN -2
             ELSE StringBudget \div stringGroupSize(v)
      [] OTHER -> 0

\* printSlice: whether a sequence of this length is folded.
Folded(v) == v.len > FoldLimit

\* Separator with the group boundary taken at the element's own index.
SeparatorAtIndex(i, gs, n) ==
    IF i % gs = 0 \/ i + 1 = n THEN <<"\n">> ELSE <<" ">>

\* printSlice: "space or newline" after element i of n.
Separator(i, gs, n) ==
    IF (i + 1) % gs = 0 \/ i + 1 = n THEN <<"\n">> ELSE <<" ">>

\* printSlice's grouped loop, before element i: "Indent for new group".
GroupIndent(f) == IF f.i % f.gs = 0 THEN Write(f, Indent(f)) ELSE f

\* printSlice up to its first nested Format call.
printSlice(c, vis, f) ==
    LET v == f.v
        isSlice == v.kind = "slice"
        marked == IF isSlice THEN vis \cup {v.addr} ELSE vis
        gs == groupSize(v)
    IN  IF isSlice /\ v.addr = 0
        THEN Ran(Write(f, typeString(c, v) \o <<"(">> \o nil(c) \o <<")">>), vis)
        ELSE IF v.len = 0 THEN Ran(Write(f, typeString(c, v) \o <<"{}">>), vis)
        ELSE IF isSlice /\ v.addr \in vis
             THEN Ran(Write(f, typeString(c, v) \o <<"{...}">>), vis)
        ELSE IF Folded(v)
             THEN Ran(Write(f, typeString(c, v) \o <<"{...}">>), marked)
        ELSE IF gs = -1
             THEN Panicked(f, marked, "interface conversion: not []string")
        ELSE IF gs = -2
             THEN Panicked(f, marked, "integer divide by zero")
        ELSE IF v.len < gs
             THEN Ran([Write(f, <<"{">>) EXCEPT !.pc = "inline", !.gs = gs], marked)
        ELSE IF gs > 0
             THEN Ran(GroupIndent([Write(f, <<"{", "\n">>)
                                      EXCEPT !.depth = @ + 1, !.pc = "grouped",
                                             !.gs = gs]),
                      marked)
        ELSE Ran([Write(f, <<"{", "\n">>)
                     EXCEPT !.depth = @ + 1, !.pc = "lines", !.gs = gs],
                 marked)

\* printInterface up to its nested Format call.
printInterface(c, vis, f) ==
    IF f.v.elem.kind = "invalid" THEN Ran(Write(f, nil(c)), vis)
    ELSE Ran([f EXCEPT !.pc = "iface"], vis)

\* printPtr up to its nested Format call.
printPtr(c, vis, f) ==
    LET v == f.v
    IN  IF v.addr \in vis
        THEN Ran(Write(f, <<"&">> \o elemTypeString(c, v) \o <<"{...}">>), vis)
        ELSE IF v.addr # 0
             THEN Ran([f EXCEPT !.pc = "ptr"], vis \cup {v.addr})
        ELSE Ran(Write(f, <<"(">> \o typeString(c, v) \o <<")(">> \o nil(c)
                          \o <<")">>), vis)

\* BootIndex.PrettyPrint: p.ColorPrint(fmt.Sprintf("%04X", i), IntegerColor).
\* Through a *BootIndex the value receiver is loaded from the pointer, which
\* panics when the pointer is nil.
PrettyPrint(c, vis, f, recv) ==
    IF recv.kind = "ptr" /\ recv.addr = 0
    THEN Panicked(f, vis, "value method called using nil pointer")
    ELSE LET i == IF recv.kind = "ptr" THEN Deref(recv.addr) ELSE recv
         IN  Ran(Write(f, Colorize(c, HexUpper(i.n, 4), "Integer")), vis)

\* Value.Interface(): the panic it ends in ("" when it returns).
InterfacePanic(v) ==
    IF v.kind = "invalid"
    THEN "reflect: call of reflect.Value.Interface on zero Value"
    ELSE IF v.ro
         THEN "reflect.Value.Interface: value obtained from unexported field"
    ELSE ""

\* The dynamic value Value.Interface() returns.
Dynamic(v) == IF v.kind = "interface" THEN v.elem ELSE v

\* Whether Format's type assertion to interface{ PrettyPrint(*Printer) } holds.
ImplementsPrettyPrint(v) ==
    Dynamic(v).kind # "invalid" /\ HasPrettyPrint(Dynamic(v).type)

\* Format's switch on the kind.
Dispatch(c, vis, f, ord) ==
    LET v == f.v
    IN  CASE v.kind = "bool" -> Ran(Write(f, Colorize(c, raw(c, v), "Bool")), vis)
          [] v.kind \in IntKinds \cup UintKinds ->
                 Ran(Write(f, Colorize(c, raw(c, v), "Integer")), vis)
          [] v.kind = "float64" ->
                 Ran(Write(f, Colorize(c, raw(c, v), "Float")), vis)
          [] v.kind = "string" -> Ran(printString(c, f), vis)
          [] v.kind = "map" -> printMap(c, vis, f, ord)
          [] v.kind = "struct" -> printStruct(c, vis, f)
          [] v.kind \in {"array", "slice"} -> printSlice(c, vis, f)
          [] v.kind = "chan" ->
                 Ran(Write(f, <<"(">> \o typeString(c, v) \o <<")(">>
                              \o pointerAddr(c, v) \o <<")">>), vis)
          [] v.kind = "interface" -> printInterface(c, vis, f)
          [] v.kind = "ptr" -> printPtr(c, vis, f)
          [] v.kind = "func" ->
                 Ran(Write(f, typeString(c, v) \o <<" ", "{...}">>), vis)
          [] v.kind = "invalid" -> Ran(Write(f, nil(c)), vis)
          [] OTHER -> Ran(Write(f, raw(c, v)), vis)

\* Printer.Format up to its first nested Format call: a new Printer at the
\* caller's depth and on the caller's visited set, the PrettyPrint capability
\* query (which calls Value.Interface), then the switch.
Format(c, vis, v, depth, ord) ==
    LET pp == NewPrinter(v, depth)
    IN  IF InterfacePanic(v) # "" THEN Panicked(pp, vis, InterfacePanic(v))
        ELSE IF ImplementsPrettyPrint(v) THEN PrettyPrint(c, vis, pp, Dynamic(v))
        ELSE Dispatch(c, vis, pp, ord)

\* The end of Printer.indented and the closing brace: p.depth--, then
\* p.IndentPrint("}").
DedentForgotten(f) == f
Dedent(f) == [f EXCEPT !.depth = @ - 1]
Close(f) == [IndentPrint(Dedent(f), <<"}">>) EXCEPT !.pc = "done"]

\* The value of the nested Format call a frame waits for.
NextArg(f) ==
    CASE f.pc = "top" -> f.v
      [] f.pc = "map" -> IF f.sub = 0 THEN f.es[f.i].k ELSE f.es[f.i].v
      [] f.pc = "struct" -> Field(f.v, f.fs[f.i])
      [] f.pc \in {"inline", "grouped", "lines"} -> Index(f.v, f.i)
      [] f.pc = "ptr" -> Elem(f.v)
      [] f.pc = "iface" -> Derived(f.v, f.v.elem)
      [] f.pc = "field" -> f.es[1]
      [] OTHER -> VInvalid

\* A print function from the return of its nested Format call (text) up to
\* its next nested call or its end.
Resume(c, f, text) ==
    CASE f.pc = "top" -> [f EXCEPT !.hold = text, !.pc = "done"]
      [] f.pc = "map" ->
             IF f.sub = 0 THEN [f EXCEPT !.hold = text, !.sub = 1]
             ELSE LET g == [IndentPrint(f, f.hold \o <<":", "\t">> \o text
                                           \o <<",", "\n">>)
                               EXCEPT !.hold = <<>>, !.sub = 0, !.i = @ + 1]
                  IN  IF g.i > Len(g.es) THEN Close(g) ELSE g
      [] f.pc = "struct" ->
             LET name == Colorize(c, <<FieldName(f.v, f.fs[f.i])>>, "FieldName")
                 g == [IndentPrint(f, name \o <<":", "\t">> \o text
                                      \o <<",", "\n">>)
                          EXCEPT !.i = @ + 1]
             IN  IF g.i > Len(g.fs) THEN Close(g) ELSE g
      [] f.pc = "inline" ->
             LET g == [Write(f, IF f.i = 0 THEN text ELSE <<",", " ">> \o text)
                          EXCEPT !.i = @ + 1]
             IN  IF g.i >= g.v.len THEN [Write(g, <<"}">>) EXCEPT !.pc = "done"]
                 ELSE g
      [] f.pc = "grouped" ->
             LET g == [Write(f, text \o <<",">>
                                \o Separator(f.i, f.gs, f.v.len))
                          EXCEPT !.i = @ + 1]
             IN  IF g.i >= g.v.len THEN Close(g) ELSE GroupIndent(g)
      [] f.pc = "lines" ->
             LET g == [IndentPrint(f, text \o <<",", "\n">>) EXCEPT !.i = @ + 1]
             IN  IF g.i >= g.v.len THEN Close(g) ELSE g
      [] f.pc = "ptr" -> [Write(f, <<"&">> \o text) EXCEPT !.pc = "done"]
      [] f.pc = "iface" -> [Write(f, text) EXCEPT !.pc = "done"]
      [] f.pc = "field" ->
             [IndentPrint(f, f.hold \o <<":", "\t">> \o text \o <<"\n">>)
                 EXCEPT !.pc = "mainE", !.hold = <<>>, !.es = <<>>]
      [] OTHER -> f

\* tabwriter.Writer.Flush: every tab-terminated cell is padded to its
\* column's width, so each tab becomes padding; other text passes through.
Flush(buf) == [i \in 1..Len(buf) |-> IF buf[i] = "\t" THEN "<pad>" ELSE buf[i]]

\* Printer.String.
String(f) == Flush(f.buf)

(***************************************************************************)
(* The values Format is called on.                                         *)
(***************************************************************************)
TT == Ty("", 0, "main", "T")
TTPtr == Ty("", 0, "*main", "T")
TEmpty == Ty("", 0, "main", "Empty")
THolder == Ty("", 0, "main", "Holder")
Thidden == Ty("", 0, "main", "hidden")
TPacket == Ty("", 0, "main", "Packet")

\* type T struct {
\*     A uint8  `pp:"a,omitempty"`
\*     B string `pp:"-"`
\*     C int
\*     D bool   `pp:",omitempty"`
\*     e uint8  `pp:"e,omitempty"`
\* }
StructT(a, d, e) ==
    VStruct(TT, <<Fld("A", TRUE, <<"a", "omitempty">>, VUint("uint8", a)),
                  Fld("B", TRUE, <<"-">>, StrA),
                  Fld("C", TRUE, <<>>, VInt(a)),
                  Fld("D", TRUE, <<"", "omitempty">>, VBool(d)),
                  Fld("e", FALSE, <<"e", "omitempty">>, VUint("uint8", e))>>)

\* type Empty struct { A uint8 `pp:"a,omitempty"`; B int `pp:"-,omitempty"` }
StructEmpty(a, b) ==
    VStruct(TEmpty, <<Fld("A", TRUE, <<"a", "omitempty">>, VUint("uint8", a)),
                      Fld("B", TRUE, <<"-", "omitempty">>, VInt(b))>>)

\* type Holder struct { Idx BootIndex; Order []BootIndex; Any interface{} }
StructHolder(n) ==
    VStruct(THolder,
            <<Fld("Idx", TRUE, <<>>, VBootIndex(n)),
              Fld("Order", TRUE, <<>>,
                  VSlice(SliceOf("efibootctl", "BootIndex"), "uint16", 1010,
                         "bootorder", 0, 2)),
              Fld("Any", TRUE, <<>>, VIface(VBootIndex(n)))>>)

\* type hidden struct { idx BootIndex }
StructHidden(n) == VStruct(Thidden, <<Fld("idx", FALSE, <<>>, VBootIndex(n))>>)

\* var arr [2]int, at address 20, with a pointer to it and a slice over it:
\* Value.Pointer() of &arr and of arr[:] are both the address of arr[0].
TPair == Ty("", 0, "main", "Pair")
TRiap == Ty("", 0, "main", "Riap")
ArrayPtr == VPtr(Plain("*[2]int"), ArrayOf(2, "", "int"), 20)
ArraySlice == VSlice(SliceOf("", "int"), "int", 20, "int", 0, 2)
\* type Pair struct { P *[2]int; S []int }; Pair{&arr, arr[:]}
PtrThenSlice ==
    VStruct(TPair, <<Fld("P", TRUE, <<>>, ArrayPtr),
                     Fld("S", TRUE, <<>>, ArraySlice)>>)
\* type Riap struct { S []int; P *[2]int }; Riap{arr[:], &arr}
SliceThenPtr ==
    VStruct(TRiap, <<Fld("S", TRUE, <<>>, ArraySlice),
                     Fld("P", TRUE, <<>>, ArrayPtr)>>)

Bytes(n) == VSlice(SliceOf("", "uint8"), "uint8", 1020, "uint8", 0, n)
ByteArray(n) == VArray(ArrayOf(n, "", "uint8"), "uint8", "uint8", n)
Words(k, n) == VSlice(SliceOf("", k), k, 1030, k, 0, n)
Ints(n) == VSlice(SliceOf("", "int"), "int", 1040, "int", 0, n)
Strings(st, n) == VSlice(TStringSlice, "string", 1050, st, 0, n)
StringArray(n) == VArray(ArrayOf(n, "", "string"), "string", "string", n)
BootOrder(n) ==
    VSlice(SliceOf("efibootctl", "BootIndex"), "uint16", 1010, "bootorder", 0, n)
Anys(n) == VSlice(TAnySlice, "interface", 1060, "any", 0, n)

\* type Packet struct { Data []byte }
StructPacket(n) == VStruct(TPacket, <<Fld("Data", TRUE, <<>>, Bytes(n))>>)

Scalars ==
    {VInvalid, VBool(TRUE), VBool(FALSE), VFloat(1234, 500000), VNaN,
     StrAB, StrEmpty, StrEsc, VFunc(50), VChan(51), VTime, VBigInt(12),
     VInt(0 - 1234567), VInt(0)}
    \cup {VBootIndex(n) : n \in {0, 1, 43981, 65535}}
    \cup {VUint(k, n) : k \in {"uint8", "uint16", "uint32", "uint64", "uint"},
                        n \in 0..MaxSmall}

Sequences_ ==
    {Bytes(n) : n \in 0..MaxSeqLen}
    \cup {Bytes(FoldLimit + 1), ByteArray(3), ByteArray(MaxSeqLen),
          ByteArray(FoldLimit + 1),
          VSlice(SliceOf("", "uint8"), "uint8", 0, "uint8", 0, 0)}
    \cup {Words(k, n) : k \in {"uint16", "uint32", "uint64"}, n \in {3, 4, 7, 8, 9}}
    \cup {Ints(n) : n \in {1, 2, FoldLimit + 1}}
    \cup {Strings("string", 2), Strings("string", MaxSeqLen),
          Strings("emptystr", 1), Strings("longstr", 2),
          Strings("string", FoldLimit + 1), StringArray(2),
          StringArray(FoldLimit + 1)}
    \cup {BootOrder(n) : n \in {2, 8}}
    \cup {Anys(2), SelfSlice}

Maps ==
    {IntMap(n) : n \in 0..MaxKeys}
    \cup {StrMap(n) : n \in 1..MaxKeys}
    \cup {AnyMap(n) : n \in 1..MaxKeys}
    \cup {SelfMap, SelfMapBad}

Structs ==
    {StructT(a, d, e) : a \in {0, 5}, d \in BOOLEAN, e \in {0, 5}}
    \cup {StructEmpty(a, b) : a \in {0, 5}, b \in {0, 5}}
    \cup {StructHolder(1), StructHidden(1), VStruct(Plain("struct {}"), <<>>)}
    \cup {PtrThenSlice, SliceThenPtr}

Pointers ==
    {SelfPtr, SelfPtrLower, RingPtrA, VPtr(TTPtr, TT, 0),
     VPtr(Plain("*int"), Plain("int"), 8),
     VPtr(TBootIndexPtr, TBootIndex, 9), VPtr(TBootIndexPtr, TBootIndex, 0)}

Roots == Scalars \cup Sequences_ \cup Maps \cup Structs \cup Pointers

\* Integers of every unsigned width and signed ones, around the digit counts
\* at which the hexadecimal padding and the grouping by thousands change
\* (the values stay below 2^31, the model checker's integers).
UintSamples(kind) ==
    (0..MaxSmall) \cup {9, 10, 15, 16, 255}
    \cup (IF kind = "uint8" THEN {} ELSE {256, 999, 1000, 4095, 65535})
    \cup (IF kind \in {"uint32", "uint64"}
          THEN {65536, 1000000, 2147483647} ELSE {})
Integers_ ==
    {VUint(k, n) : k \in {"uint8"}, n \in UintSamples("uint8")}
    \cup {VUint(k, n) : k \in {"uint16"}, n \in UintSamples("uint16")}
    \cup {VUint(k, n) : k \in {"uint32", "uint64"}, n \in UintSamples("uint32")}
    \cup {VInt(n) : n \in {0 - 1234567, 0 - 1000, 0 - 1, 0, 7, 999, 1000}}

\* Byte sequences up to the fold limit and beyond it, at depth 0 and as a
\* field, and sequences of the wider unsigned kinds.
ByteSequences ==
    {Bytes(n) : n \in 0..MaxSeqLen}
    \cup {Bytes(n) : n \in {2 * GroupUint8, 2 * GroupUint8 + 1, FoldLimit,
                            FoldLimit + 1}}
    \cup {ByteArray(n) : n \in {GroupUint8 - 1, GroupUint8, MaxSeqLen}}
    \cup {StructPacket(n) : n \in {GroupUint8 - 1, MaxSeqLen, 2 * GroupUint8 + 1}}
    \cup {Words(k, n) : k \in {"uint16", "uint32", "uint64"}, n \in {3, 4, 7, 8, 9}}

\* NewPrinter's options.
Configs ==
    [colorScheme : {"nil", "default"}, color : {0}, decimalUint : BOOLEAN,
     exportedOnly : BOOLEAN, thousandsSeparator : BOOLEAN]

(***************************************************************************)
(* The state machine.                                                      *)
(***************************************************************************)
\* The caller of the top-level Format: a Printer of depth 0 about to call
\* p.Format(v).
Caller(v) == [NewPrinter(v, 0) EXCEPT !.pc = "top"]

Top == stack[Len(stack)]

\* No EFI context is open when the printer is used on its own.
NoContext == [open |-> FALSE]

\* printer.NewPrinter(...) with options among C, and the call
\* p.Format(root) on a value among R.
InitOn(R, C) ==
    /\ cfg \in C
    /\ root \in R
    /\ visited = {}
    /\ stack = <<Caller(root)>>
    /\ status = "running"
    /\ out = <<>>
    /\ prev = [has |-> FALSE, out |-> <<>>]
    /\ efi = NoContext
    /\ err = <<>>
    /\ stderr = <<>>

\* The orders in which MapKeys may deliver the keys of the map about to be
\* sorted (one dummy order for every other call).
Orders(v, vis) ==
    IF v.kind = "map" /\ ~v.ro /\ v.len > 0 /\ v.addr \notin vis
    THEN IterationOrders(v.len)
    ELSE {<<>>}

\* A nested (or the top-level) call of Printer.Format, up to its first nested
\* call, its return or its panic.
Call ==
    /\ status = "running"
    /\ Top.pc \notin {"done", "mainE"}
    /\ \E ord \in Orders(NextArg(Top), visited) :
         LET r == Format(cfg, visited, NextArg(Top), Top.depth, ord)
         IN  IF r.err # ""
             THEN /\ status' = "panic"
                  /\ out' = <<r.err>>
                  /\ stack' = stack
                  /\ visited' = r.vis
             ELSE /\ status' = status
                  /\ out' = out
                  /\ stack' = Append(stack, r.f)
                  /\ visited' = r.vis
    /\ UNCHANGED <<cfg, root, prev, cliVars>>

\* The return of a Format call: pp.String() goes to the caller, which prints
\* it and runs on.
Return ==
    /\ status = "running"
    /\ Len(stack) >= 2
    /\ Top.pc = "done"
    /\ LET text == String(Top)
           caller == Resume(cfg, stack[Len(stack) - 1], text)
       IN  /\ stack' = Append(SubSeq(stack, 1, Len(stack) - 2), caller)
           /\ status' = IF Len(stack) = 2 /\ caller.pc = "done" THEN "done"
                        ELSE status
           /\ out' = IF Len(stack) = 2 /\ caller.pc = "done" THEN text ELSE out
    /\ UNCHANGED <<cfg, root, visited, prev, cliVars>>

\* A second, independent render of the same value: a new Printer with the
\* same options (and so a new visited set) formats root again.
Rerun ==
    /\ status = "done"
    /\ ~prev.has
    /\ prev' = [has |-> TRUE, out |-> out]
    /\ visited' = {}
    /\ stack' = <<Caller(root)>>
    /\ status' = "running"
    /\ out' = <<>>
    /\ UNCHANGED <<cfg, root, cliVars>>

Init == InitOn(Roots, Configs)

Next == Call \/ Return \/ Rerun

\* One render, and a second one of the same value, of every value of the
\* catalogue under every combination of options.
Spec == Init /\ [][Next]_vars

\* A single render.
NextOnce == Call \/ Return

\* One render of every integer of Integers_ under every combination of
\* options.
InitNum == InitOn(Integers_, Configs)
SpecNum == InitNum /\ [][NextOnce]_vars

\* One render of every byte sequence of ByteSequences under every combination
\* of options.
InitSeq == InitOn(ByteSequences, Configs)
SpecSeq == InitSeq /\ [][NextOnce]_vars

\* The values a caller hands, one after the other, to one and the same
\* Printer.
SharedRoots ==
    {SelfMap, SelfSlice, SelfPtr, SelfPtrLower, RingPtrA, RingPtrB,
     IntMap(1), StrMap(MaxSmall), Bytes(MaxSmall), VInt(1)}

\* A later p.Format(v) on the Printer of the call that has returned (also
\* the one inside p.PrintFieldValue and p.PrintKeyValue, line 300 and 305):
\* Format hands p.visited to the new Printer as it is.
FormatAgain ==
    /\ status = "done"
    /\ \E v \in SharedRoots :
         /\ root' = v
         /\ stack' = <<Caller(v)>>
    /\ status' = "running"
    /\ out' = <<>>
    /\ UNCHANGED <<cfg, visited, prev, cliVars>>

\* Any sequence of Format calls on one Printer, on the values of SharedRoots.
InitShared == InitOn(SharedRoots, Configs)
NextShared == Call \/ Return \/ FormatAgain
SpecShared == InitShared /\ [][NextShared]_vars

\* The values a field of a ColorScheme may hold: every combination of the
\* foreground, background and bold bits, alone and with the NoColor bit.
ColorValues == (0..MaxColor) \cup {NoColor + v : v \in 0..MaxColor}

\* Printers with no scheme and with a uniform scheme of every such value.
ColorConfigs ==
    [colorScheme : {"nil"}, color : {0, Red}, decimalUint : {FALSE},
     exportedOnly : {FALSE}, thousandsSeparator : {FALSE}]
    \cup [colorScheme : {"uniform"}, color : ColorValues, decimalUint : {FALSE},
          exportedOnly : {FALSE}, thousandsSeparator : {FALSE}]

\* The values whose text is one colorized token.
Tokens == {VInt(7), VInt(-12), VBool(TRUE)}

\* One render of every value of Tokens under every Printer of ColorConfigs.
InitColor == InitOn(Tokens, ColorConfigs)
SpecColor == InitColor /\ [][NextOnce]_vars

(***************************************************************************)
(* The command-line run: mainE.                                            *)
(***************************************************************************)
\* The outcome of a read of an EFI variable (Variable.Get): the value and a
\* nil error, or an error.
Ok(val) == [err |-> "", val |-> val]
Failed(e) == [err |-> e, val |-> 0]

\* errors.Is(err, efivario.ErrNotFound): the error itself or one wrapping it.
ErrorsIsNever(e) == FALSE
ErrorsIsNotFound(e) == e \in {"ErrNotFound", "BootNext: ErrNotFound"}

\* A load option: its description and the ActiveAttribute bit.
LoadOption(desc, active) == [desc |-> desc, active |-> active]

\* What the context c may hold: the outcome of each read, the boot entries
\* the iterator yields (index and outcome of the read of the entry), and the
\* outcomes of closing the iterator and the context ("" for nil).
Stores ==
    [open : {TRUE},
     BootNext : {Ok(0), Ok(MaxSmall), Failed("ErrNotFound"),
                 Failed("BootNext: ErrNotFound"), Failed("BootNext: EIO")},
     BootCurrent : {Ok(1), Failed("BootCurrent: EIO"),
                    Failed("ErrNotFound")},
     BootOrder : {Ok(MaxSmall), Failed("BootOrder: EIO")},
     BootIterator : {"", "BootIterator: EIO"},
     entries : {<<>>,
                <<[index |-> 1, get |-> Ok(LoadOption(StrAB, TRUE))]>>,
                <<[index |-> 1, get |-> Ok(LoadOption(StrAB, TRUE))],
                  [index |-> 0, get |-> Failed("Boot0000: EIO")],
                  [index |-> MaxSmall, get |-> Ok(LoadOption(StrA, FALSE))]>>},
     closeIterator : {"", "iterator: EBADF"},
     closeContext : {"", "context: EBADF"}]

\* printer.NewPrinter("", printer.DefaultScheme, true, true, true).
MainConfig ==
    [colorScheme |-> "default", color |-> 0, decimalUint |-> TRUE,
     exportedOnly |-> TRUE,
     thousandsSeparator |-> TRUE]

\* mainE after line 42: the context is open, p is new.
InitCli ==
    /\ cfg = MainConfig
    /\ root = StrEmpty
    /\ visited = {}
    /\ stack = <<[NewPrinter(StrEmpty, 0) EXCEPT !.pc = "mainE"]>>
    /\ status = "running"
    /\ out = <<>>
    /\ prev = [has |-> FALSE, out |-> <<>>]
    /\ efi \in Stores
    /\ err = <<>>
    /\ stderr = <<>>

\* mainE is at statement n, no PrintFieldValue under way.
At(n) ==
    /\ status = "running"
    /\ Len(stack) = 1
    /\ Top.pc = "mainE"
    /\ Top.i = n

\* multierr.AppendInvoke(&err, multierr.Close(...)), the deferred calls run
\* at a return: the iterator's (when it was made) and then the context's.
Deferred(e, withIterator) ==
    LET closed(x) == IF x = "" THEN <<>> ELSE <<x>>
    IN  e \o (IF withIterator THEN closed(efi.closeIterator) ELSE <<>>)
          \o closed(efi.closeContext)

\* "return err" (and the "return nil" of line 100).
ReturnErr(e, withIterator) ==
    /\ err' = Deferred(e, withIterator)
    /\ status' = "done"
    /\ stack' = <<[Top EXCEPT !.pc = "returned"]>>

\* p.PrintFieldValue(k, v) up to its call p.Format(v); mainE goes on at
\* statement n afterwards.
PrintFieldValue(k, v, n) ==
    /\ stack' = <<[Top EXCEPT !.pc = "field", !.es = <<v>>, !.i = n,
                              !.hold = Colorize(cfg, k, "FieldName")]>>
    /\ UNCHANGED <<status, err>>

\* Lines 44-53: "Report BootNext value."
ReportBootNext ==
    /\ At(0)
    /\ IF efi.BootNext.err # ""
       THEN IF ~ErrorsIsNotFound(efi.BootNext.err)
            THEN ReturnErr(<<efi.BootNext.err>>, FALSE)
            ELSE /\ stack' = <<[Top EXCEPT !.i = 1]>>
                 /\ UNCHANGED <<status, err>>
       ELSE PrintFieldValue(<<"BootNext">>, VBootIndex(efi.BootNext.val), 1)
    /\ UNCHANGED <<cfg, root, visited, out, prev, efi, stderr>>

\* Lines 55-60: "Report BootCurrent value."
ReportBootCurrent ==
    /\ At(1)
    /\ IF efi.BootCurrent.err # ""
       THEN ReturnErr(<<efi.BootCurrent.err>>, FALSE)
       ELSE PrintFieldValue(<<"BootCurrent">>,
                            VBootIndex(efi.BootCurrent.val), 2)
    /\ UNCHANGED <<cfg, root, visited, out, prev, efi, stderr>>

\* Lines 64-71: BootOrder, as a []BootIndex.
ReportBootOrder ==
    /\ At(2)
    /\ IF efi.BootOrder.err # ""
       THEN ReturnErr(<<efi.BootOrder.err>>, FALSE)
       ELSE PrintFieldValue(<<"BootOrder">>, BootOrder(efi.BootOrder.val), 3)
    /\ UNCHANGED <<cfg, root, visited, out, prev, efi, stderr>>

\* Lines 73-77: efivars.BootIterator(c).
OpenIterator ==
    /\ At(3)
    /\ IF efi.BootIterator # ""
       THEN ReturnErr(<<efi.BootIterator>>, FALSE)
       ELSE /\ stack' = <<[Top EXCEPT !.i = 4, !.sub = 1]>>
            /\ UNCHANGED <<status, err>>
    /\ UNCHANGED <<cfg, root, visited, out, prev, efi, stderr>>

\* Lines 79-96: the function applied to each boot entry.
ReportEntry ==
    /\ At(4)
    /\ Top.sub <= Len(efi.entries)
    /\ LET be == efi.entries[Top.sub]
           next == [Top EXCEPT !.sub = @ + 1]
       IN  IF be.get.err # ""
           THEN /\ stderr' = stderr \o <<"error: ", be.get.err, "\n">>
                /\ stack' = <<next>>
           ELSE /\ stderr' = stderr
                /\ stack' = <<[next EXCEPT
                      !.pc = "field",
                      !.es = <<be.get.val.desc>>,
                      !.hold = Colorize(cfg,
                                   <<"Boot">> \o HexUpper(be.index, 4)
                                     \o (IF be.get.val.active THEN <<"*">>
                                         ELSE <<>>),
                                   "FieldName")]>>
    /\ UNCHANGED <<cfg, root, visited, status, out, prev, efi, err>>

\* Lines 98-100: fmt.Fprint(printer.DefaultOut, p.String()); return nil.
PrintAll ==
    /\ At(4)
    /\ Top.sub > Len(efi.entries)
    /\ out' = String(Top)
    /\ ReturnErr(<<>>, TRUE)
    /\ UNCHANGED <<cfg, root, visited, prev, efi, stderr>>

NextCli ==
    \/ ReportBootNext \/ ReportBootCurrent \/ ReportBootOrder
    \/ OpenIterator \/ ReportEntry \/ PrintAll
    \/ Call \/ Return

\* One run of mainE over every store of Stores.
SpecCli == InitCli /\ [][NextCli]_vars

(***************************************************************************)
(* Properties.                                                             *)
(***************************************************************************)
\* The containers of the catalogue that reach themselves through their own
\* contents.
CyclicRoots == {SelfMap, SelfMapBad, SelfSlice, SelfPtr, SelfPtrLower, RingPtrA}

\* v and w are one and the same map, slice or pointer.
SameContainer(v, w) ==
    /\ v.kind \in {"map", "slice", "ptr"}
    /\ w.kind = v.kind
    /\ v.addr # 0
    /\ w.addr = v.addr

\* The elision marker of a container: Type{...}, &Type{...} for a pointer.
Marker(c, v) ==
    IF v.kind = "ptr" THEN <<"&">> \o elemTypeString(c, v) \o <<"{...}">>
    ELSE typeString(c, v) \o <<"{...}">>

\* Every Format call on a container that an enclosing call is traversing has
\* printed the marker and nothing else, and makes no nested call.
CycleClosed ==
    \A j \in 2..Len(stack) : \A k \in (j + 1)..Len(stack) :
        SameContainer(stack[j].v, stack[k].v)
            => /\ stack[k].pc = "done"
               /\ stack[k].buf = Marker(cfg, stack[k].v)

\* C1: for a self-referential map, slice or pointer, Format terminates with
\* its text, and the occurrence that closes the cycle is rendered as the
\* marker Type{...} (&Type{...} for a pointer) instead of being traversed
\* again.
C1_CycleSafety ==
    /\ root \in CyclicRoots => status # "panic"
    /\ CycleClosed

\* C2: Format never fails: whatever the value, it returns text and never
\* panics.
C2_NeverFails == status # "panic"

\* C3: the output for a map is a function of its entries alone: two renders
\* of the same entries give the same text, whatever the orders in which
\* MapKeys delivered the keys.
C3_MapDeterminism == (status = "done" /\ prev.has) => out = prev.out

Contains(text, tok) == \E i \in 1..Len(text) : text[i] = tok

\* The composite shapes and the name token of their types.
Composite(v) ==
    \/ v.kind \in {"map", "struct", "array", "slice"}
    \/ v.kind = "ptr" /\ v.etype \in {TT, TNode, TnodeLower}
TypeName(v) == IF v.kind = "ptr" THEN v.etype.name ELSE v.type.name

\* C4: for every finite non-cyclic value Format returns non-empty text, and
\* for a map, a struct, a sequence or a pointer to one of them the text
\* contains the name of the value's type, in the inline and the multi-line
\* layout of a sequence too.
C4_NonEmptyWithTypeName ==
    root \notin CyclicRoots =>
        /\ status # "panic"
        /\ status = "done" =>
               /\ out # <<>>
               /\ Composite(root) => Contains(out, TypeName(root))

\* The Format call a state is about to make is one on a sequence that
\* printSlice gets to see and that is not nil.
CallsSequence ==
    /\ status = "running"
    /\ Top.pc # "done"
    /\ NextArg(Top).kind \in {"array", "slice"}
    /\ ~NextArg(Top).ro
    /\ ~(NextArg(Top).kind = "slice" /\ NextArg(Top).addr = 0)

\* C5: a sequence of more than 1024 elements is rendered as Type{...} and
\* none of its elements is formatted; a sequence of 1 to 1024 elements that
\* is not already visited is expanded element by element.
C5_LargeSequenceElision ==
    [][CallsSequence =>
          LET a == NextArg(Top)
              pp == stack'[Len(stack')]
          IN  IF a.len > FoldLimit
              THEN /\ status' = "running"
                   /\ Len(stack') = Len(stack) + 1
                   /\ pp.pc = "done"
                   /\ pp.buf = Marker(cfg, a)
              ELSE (a.len >= 1 /\ ~(a.kind = "slice" /\ a.addr \in visited))
                   => /\ status' = "running"
                      /\ Len(stack') = Len(stack) + 1
                      /\ pp.pc \in {"inline", "grouped", "lines"}
                      /\ pp.i = 0]_vars

Count(text, tok) == Cardinality({i \in 1..Len(text) : text[i] = tok})

\* The places of the commas of a text, in order.
Commas(text) ==
    SelectSeq([i \in 1..Len(text) |-> i], LAMBDA i : text[i] = ",")

Groups(n) == (n + GroupUint8 - 1) \div GroupUint8

\* The multi-line layout of n byte-sized elements printed by a Printer of
\* the given depth: n elements, each followed by a comma; after the comma
\* of element k (counting from 1) a newline when k is a multiple of 16 or
\* k = n, and one space otherwise; indentation before the first element of
\* each group of 16 (and before the closing brace) and nowhere else.
GroupedLayout(text, n, depth) ==
    LET cs == Commas(text)
    IN  /\ Len(cs) = n
        /\ SubSeq(text, 1, 2) = <<"{", "\n">>
        /\ text[3] = "\t"
        /\ \A k \in 1..n :
              /\ text[cs[k] - 1] \notin {"\t", "\n", " ", ",", "{"}
              /\ text[cs[k] + 1] =
                     (IF k % GroupUint8 = 0 \/ k = n THEN "\n" ELSE " ")
              /\ k < n => (text[cs[k] + 2] = "\t" <=> k % GroupUint8 = 0)
        /\ Count(text, "\n") = 1 + Groups(n)
        /\ Count(text, " ") = n - Groups(n)
        /\ Count(text, "\t") = (depth + 1) * Groups(n) + depth
        /\ text[Len(text)] = "}"

\* A Format call on a sequence of 16 to 1024 byte-sized elements has
\* returned from printSlice with more than the elision marker.
ByteSequenceDone ==
    /\ status = "running"
    /\ Top.pc = "done"
    /\ Top.v.kind \in {"array", "slice"}
    /\ Top.v.ekind = "uint8"
    /\ Top.v.len >= GroupUint8
    /\ Top.v.len <= FoldLimit
    /\ Top.buf # Marker(cfg, Top.v)

\* C6: a sequence of n byte-sized elements, 16 <= n <= 1024, is rendered
\* multi-line: each element followed by a comma, then a newline after every
\* 16th element and after the last and a single space after every other;
\* indentation only before the elements whose index is a multiple of 16.
C6_SequenceGrouping ==
    ByteSequenceDone => GroupedLayout(Top.buf, Top.v.len, Top.depth)

\* The 20 elements of the claim: one newline after the 16th element, one
\* after the 20th (and the one after the opening brace).
C6_Witness ==
    /\ ByteSequenceDone
    /\ Top.v.len = 20
    /\ Count(Top.buf, "\n") = 3
    /\ Top.buf[Commas(Top.buf)[16] + 1] = "\n"
    /\ Top.buf[Commas(Top.buf)[20] + 1] = "\n"

\* Token i of a text is part of an ANSI escape sequence (ESC[ ... m).
InEscape(text, i) ==
    \E j \in 1..i :
        /\ text[j] = "ESC["
        /\ \A k \in (j + 1)..(i - 1) : text[k] # "m"

\* A text without its ANSI escape sequences.
StripAnsi(text) ==
    LET kept == SelectSeq([i \in 1..Len(text) |-> i],
                          LAMBDA i : ~InEscape(text, i))
    IN  [n \in 1..Len(kept) |-> text[kept[n]]]

DigitOf(tok) == CHOOSE d \in 0..15 : LowerDigits[d + 1] = tok
IsDigits(text, base) ==
    /\ text # <<>>
    /\ \A i \in 1..Len(text) :
           \E d \in 0..(base - 1) : LowerDigits[d + 1] = text[i]

RECURSIVE ValueOf(_, _)
\* The number a text of digits denotes in the given base.
ValueOf(text, base) ==
    IF text = <<>> THEN 0
    ELSE base * ValueOf(SubSeq(text, 1, Len(text) - 1), base)
         + DigitOf(text[Len(text)])

\* text is the plain decimal text of n >= 0: digits only, no leading zero.
IsDecimalOf(text, n) ==
    /\ IsDigits(text, 10)
    /\ Len(text) > 1 => text[1] # "0"
    /\ ValueOf(text, 10) = n

\* text is the decimal text of n >= 0 with a comma before every group of
\* three digits counted from the right.
IsGroupedDecimalOf(text, n) ==
    /\ \A i \in 1..Len(text) :
           text[i] = "," <=> (i > 1 /\ (Len(text) - i + 1) % 4 = 0)
    /\ IsDecimalOf(SelectSeq(text, LAMBDA tok : tok # ","), n)

\* text is 0x and exactly width lowercase hexadecimal digits denoting n.
IsHexOf(text, n, width) ==
    /\ Len(text) = width + 1
    /\ text[1] = "0x"
    /\ IsDigits(Tail(text), 16)
    /\ ValueOf(Tail(text), 16) = n

Magnitude(text) == IF text # <<>> /\ text[1] = "-" THEN Tail(text) ELSE text

FixedWidths == [uint8 |-> 2, uint16 |-> 4, uint32 |-> 8, uint64 |-> 16]

SizedUint(v) == v.kind \in {"uint8", "uint16", "uint32", "uint64"}

\* Format has returned the text of a top-level integer.
IntegerDone == status = "done" /\ (SizedUint(root) \/ root.kind = "int")

\* C7 as stated: with prefer-decimal off an unsigned 8/16/32/64-bit value is
\* rendered as 0x and exactly 2/4/8/16 lowercase hexadecimal digits; with it
\* on, as its decimal text; a signed integer as its decimal text whatever
\* the flag.
C7_UnsignedFormatting ==
    IntegerDone =>
        LET text == StripAnsi(out)
        IN  IF SizedUint(root)
            THEN IF cfg.decimalUint THEN IsDecimalOf(text, root.n)
                 ELSE IsHexOf(text, root.n, FixedWidths[root.kind])
            ELSE /\ (text[1] = "-") <=> root.n < 0
                 /\ IsDecimalOf(Magnitude(text),
                                IF root.n < 0 THEN 0 - root.n ELSE root.n)

\* C7 as amended: the decimal text of a 16/32/64-bit unsigned value (with
\* prefer-decimal on) and of a signed integer is grouped by thousands when
\* the thousands-separator option is on; an 8-bit one is never grouped; the
\* hexadecimal text is as stated.
C7_UnsignedFormattingGrouped ==
    IntegerDone =>
        LET text == StripAnsi(out)
            grouped == cfg.thousandsSeparator /\ root.kind # "uint8"
            mag == IF root.n < 0 THEN 0 - root.n ELSE root.n
        IN  IF SizedUint(root) /\ ~cfg.decimalUint
            THEN IsHexOf(text, root.n, FixedWidths[root.kind])
            ELSE /\ (text[1] = "-") <=> root.n < 0
                 /\ IF grouped THEN IsGroupedDecimalOf(Magnitude(text), mag)
                    ELSE IsDecimalOf(Magnitude(text), mag)

\* 1000 as a uint16 with both options on is rendered as 1,000.
C7_Witness ==
    /\ status = "done"
    /\ root = VUint("uint16", 1000)
    /\ cfg.decimalUint
    /\ cfg.thousandsSeparator
    /\ StripAnsi(out) = <<"1", ",", "0", "0", "0">>

\* A Format call on a struct has returned from printStruct's field loop or
\* from its TypeName{} branch.
StructDone ==
    /\ status = "running"
    /\ Top.pc = "done"
    /\ Top.v.kind = "struct"
    /\ Top.v.type \notin {TTime, TBigInt}

\* The struct's own output has a line for the name: the name at the start
\* of a line, after the indentation, followed by a colon and a tab.
Present(text, name) ==
    \E j \in 2..(Len(text) - 2) :
        /\ text[j - 1] = "\t"
        /\ text[j] = name
        /\ text[j + 1] = ":"
        /\ text[j + 2] = "\t"

\* The zero value of the kinds the catalogue's fields have.
IsZeroValue(v) ==
    CASE v.kind = "bool" -> ~v.b
      [] v.kind \in IntKinds \cup UintKinds -> v.n = 0
      [] v.kind = "string" -> v.chars = <<>>
      [] v.kind \in {"slice", "map", "ptr"} -> v.addr = 0
      [] OTHER -> FALSE

\* The field's tag is pp:"name,omitempty" with a name other than "-".
OmitEmpty(field) ==
    Len(field.tag) = 2 /\ field.tag[2] = "omitempty" /\ field.tag[1] # "-"
Dashed(field) == field.tag # <<>> /\ field.tag[1] = "-"
PrintedName(field) ==
    IF field.tag # <<>> /\ field.tag[1] # "" THEN field.tag[1] ELSE field.name

\* No field has a line: the struct is rendered as TypeName{}.
EmptyBraces ==
    (\A i \in 1..Len(Top.v.fields) :
         ~Present(StripAnsi(Top.buf), PrintedName(Top.v.fields[i])))
    => Top.buf = typeString(cfg, Top.v) \o <<"{}">>

MapDone ==
    /\ status = "running"
    /\ Top.pc = "done"
    /\ Top.v.kind = "map"
    /\ Top.mk # <<>>

\* The text of a key of dynamic type int, string or bool, colors aside.
KeyText(k) ==
    LET e == Dynamic(k)
    IN  CASE e.kind = "string" -> <<"\"">> \o e.chars \o <<"\"">>
          [] e.kind = "bool" -> IF e.b THEN <<"true">> ELSE <<"false">>
          [] OTHER -> Decimal(e.n)

\* Where the entry of key k starts in the map's own output: the key's text
\* at the start of a line, after the indentation, followed by a colon and a
\* tab (0 when it has no line).
LineOf(text, k) ==
    LET kt == KeyText(k)
        at == {j \in 2..Len(text) :
                  /\ text[j - 1] = "\t"
                  /\ j + Len(kt) + 1 <= Len(text)
                  /\ SubSeq(text, j, j + Len(kt) + 1) = kt \o <<":", "\t">>}
    IN  IF at = {} THEN 0 ELSE CHOOSE j \in at : \A l \in at : j <= l

Incomparable(a, b) == Dynamic(a).type # Dynamic(b).type

\* C9: two keys of different runtime types are printed in the relative
\* order in which MapKeys delivered them, for every key set and every
\* iteration order.
C9_StableTies ==
    MapDone =>
        LET text == StripAnsi(Top.buf)
        IN  \A i \in 1..Len(Top.mk) : \A j \in (i + 1)..Len(Top.mk) :
                Incomparable(Top.mk[i].k, Top.mk[j].k)
                    => /\ LineOf(text, Top.mk[i].k) > 0
                       /\ LineOf(text, Top.mk[i].k) < LineOf(text, Top.mk[j].k)

\* A map[interface{}]int whose keys 1, "a" and 0 were delivered with the
\* string first and the larger int before the smaller one, and printed so.
C9_Witness ==
    /\ MapDone
    /\ Top.v = AnyMap(3)
    /\ Dynamic(Top.mk[1].k).kind = "string"
    /\ Dynamic(Top.mk[2].k).n = 1
    /\ LineOf(StripAnsi(Top.buf), Top.mk[1].k) > 0
    /\ LineOf(StripAnsi(Top.buf), Top.mk[1].k)
           < LineOf(StripAnsi(Top.buf), Top.mk[2].k)
    /\ LineOf(StripAnsi(Top.buf), Top.mk[2].k)
           < LineOf(StripAnsi(Top.buf), Top.mk[3].k)

\* text is exactly four uppercase hexadecimal digits denoting n.
IsUpperHex4Of(text, n) ==
    /\ Len(text) = 4
    /\ \A i \in 1..4 : \E d \in 0..15 : UpperDigits[d + 1] = text[i]
    /\ n = 4096 * (CHOOSE d \in 0..15 : UpperDigits[d + 1] = text[1])
           + 256 * (CHOOSE d \in 0..15 : UpperDigits[d + 1] = text[2])
           + 16 * (CHOOSE d \in 0..15 : UpperDigits[d + 1] = text[3])
           + (CHOOSE d \in 0..15 : UpperDigits[d + 1] = text[4])

\* The Format call a state is about to make is one on a BootIndex: the
\* value itself, an element of a sequence, a struct field, or the content of
\* an interface.
CallsBootIndex ==
    /\ status = "running"
    /\ Top.pc # "done"
    /\ Dynamic(NextArg(Top)).kind # "invalid"
    /\ Dynamic(NextArg(Top)).type = TBootIndex

\* C10: Format hands every value whose type implements PrettyPrint to that
\* method before any dispatch on the shape, elements of sequences and struct
\* fields too: a BootIndex is rendered as exactly four uppercase hexadecimal
\* digits whatever the options, and BootOrder [1, 0] inline as {0001, 0000}.
C10_PrettyPrintPriority ==
    /\ [][CallsBootIndex =>
             /\ status' = "running"
             /\ Len(stack') = Len(stack) + 1
             /\ stack'[Len(stack')].pc = "done"
             /\ IsUpperHex4Of(StripAnsi(stack'[Len(stack')].buf),
                              Dynamic(NextArg(Top)).n)]_vars
    /\ []((status = "done" /\ root = BootOrder(2))
              => StripAnsi(out) = <<"{", "0", "0", "0", "1", ",", " ",
                                    "0", "0", "0", "0", "}">>)


\* The lookup of printMap, printSlice and printPtr finds the identity of v
\* in the visited set: v is a non-empty map, a non-nil non-empty slice or a
\* pointer whose address has been inserted.
MetAgain(v) ==
    /\ v.kind \in {"map", "slice", "ptr"}
    /\ v.kind \in {"map", "slice"} => v.len > 0
    /\ v.addr # 0
    /\ v.addr \in visited

\* C11: across the Format calls made on one Printer and all their nested
\* renders the visited set only grows, and a Format call on a container whose
\* identity is already in the set (inserted by an enclosing render or by an
\* earlier call on the same Printer) returns the marker Type{...} without
\* traversing the container and without touching the set.
C11_VisitedMonotone ==
    [][/\ visited \subseteq visited'
       /\ (status = "running" /\ Top.pc # "done" /\ MetAgain(NextArg(Top)))
              => /\ status' = "running"
                 /\ visited' = visited
                 /\ Len(stack') = Len(stack) + 1
                 /\ stack'[Len(stack')].pc = "done"
                 /\ stack'[Len(stack')].buf = Marker(cfg, NextArg(Top))]_vars

\* What mainE's Printer p has printed so far, colors aside.
Printed == StripAnsi(stack[1].buf)

\* The line PrintFieldValue prints for a boot index.
IndexLine(k, n) == <<k, ":", "\t">> \o HexUpper(n, 4) \o <<"\n">>

IsPrefix(a, b) == Len(a) <= Len(b) /\ SubSeq(b, 1, Len(a)) = a

\* mainE has returned / the read of BootNext ended in the not-found error.
Returned == status = "done"
BootNextMissing ==
    efi.BootNext.err \in {"ErrNotFound", "BootNext: ErrNotFound"}

\* The run went on past BootNext: it returned the error of the first later
\* read that failed and wrote nothing, or it wrote the BootCurrent line, the
\* BootOrder line and a line for every boot entry that could be read.
WentOn ==
    IF efi.BootCurrent.err # ""
    THEN err # <<>> /\ err[1] = efi.BootCurrent.err /\ out = <<>>
    ELSE IF efi.BootOrder.err # ""
    THEN err # <<>> /\ err[1] = efi.BootOrder.err /\ out = <<>>
    ELSE IF efi.BootIterator # ""
    THEN err # <<>> /\ err[1] = efi.BootIterator /\ out = <<>>
    ELSE /\ out = Flush(stack[1].buf)
         /\ Contains(out, "BootCurrent")
         /\ Contains(out, "BootOrder")
         /\ Count(out, "Boot")
              = Cardinality({i \in 1..Len(efi.entries) :
                                efi.entries[i].get.err = ""})

\* C12: in mainE, when the read of BootNext fails with the not-found error
\* no BootNext line is printed and the run goes on to BootCurrent, BootOrder
\* and the boot entries; when it fails with another error the run returns
\* that error; when it succeeds the BootNext line is printed first, before
\* the BootCurrent line.
C12_BootNextOptional ==
    /\ efi.BootNext.err # "" => ~Contains(Printed, "BootNext")
    /\ (Returned /\ BootNextMissing) => WentOn
    /\ (Returned /\ efi.BootNext.err # "" /\ ~BootNextMissing)
           => /\ err # <<>> /\ err[1] = efi.BootNext.err
              /\ out = <<>>
              /\ Printed = <<>>
    /\ (efi.BootNext.err = "" /\ (Returned \/ Contains(Printed, "BootCurrent")))
           => /\ IsPrefix(IndexLine("BootNext", efi.BootNext.val)
                            \o <<"BootCurrent">>,
                          Printed \o <<"BootCurrent">>)
              /\ Returned => WentOn

\* A run in which BootNext was not found has printed the other lines.
C12_Witness ==
    /\ Returned
    /\ efi.BootNext.err = "ErrNotFound"
    /\ err = <<>>
    /\ Len(efi.entries) > 1
    /\ IsPrefix(IndexLine("BootCurrent", 1), StripAnsi(stack[1].buf))
    /\ out # <<>>

\* A frame inside the block of Printer.indented: the loop of printMap, of
\* printStruct or of printSlice's multi-line layouts.
InBlock(f) == f.pc \in {"map", "struct", "grouped", "lines"}

\* C13: the depth of a Printer is never negative; a Printer made by Format
\* starts at its caller's depth, is one deeper exactly while it is inside a
\* nested block, and is back at that depth when it has finished; and the
\* return of a Format call leaves the caller's depth as it was before the
\* call (one less only when the caller thereupon leaves its own block).
C13_DepthRestored ==
    /\ [](\A k \in 1..Len(stack) : stack[k].depth >= 0)
    /\ [](\A k \in 2..Len(stack) :
              stack[k].depth
                  = stack[k - 1].depth + (IF InBlock(stack[k]) THEN 1 ELSE 0))
    /\ []((stack[1].pc \in {"top", "done", "mainE", "field", "returned"})
              /\ stack[1].depth = 0)
    /\ [][(status = "running" /\ Len(stack) >= 2 /\ Top.pc = "done")
              => LET caller == stack[Len(stack) - 1]
                     after == stack'[Len(stack')]
                 IN  /\ Len(stack') = Len(stack) - 1
                     /\ after.depth
                          = caller.depth
                              - (IF InBlock(caller) /\ after.pc = "done"
                                 THEN 1 ELSE 0)]_vars

\* A container nested in the block of another has been rendered in full and
\* is about to be handed back to its caller.
C13_Witness ==
    /\ status = "running"
    /\ Len(stack) >= 3
    /\ Top.pc = "done"
    /\ Top.v.kind \in {"map", "struct", "slice"}
    /\ Contains(Top.buf, "}")
    /\ Contains(Top.buf, "\n")
    /\ InBlock(stack[Len(stack) - 1])
    /\ Top.depth = stack[Len(stack) - 1].depth
    /\ Top.depth >= 1

\* The values of the catalogue in which no map, slice or pointer occurs
\* twice, no sequence is longer than the fold limit and there is no func: in
\* a render of such a value no container has been traversed before it is
\* met, so nothing may be elided.
Unshared(v) ==
    /\ v \notin CyclicRoots
    /\ v.kind # "func"
    /\ v.kind \in {"slice", "array"} => ~Folded(v)

\* C16: a map, slice or pointer is rendered as the marker {...} only if that
\* very container was traversed earlier in the render or is a sequence
\* longer than 1024 (so the render of a value in which every container
\* occurs once holds no marker, also when two of its containers, such as a
\* pointer to an array and a slice over it, share their storage address),
\* and the nil address 0 is never inserted into the visited set.
C16_ElisionSound ==
    /\ 0 \notin visited
    /\ (status = "done" /\ Unshared(root)) => ~Contains(out, "{...}")

\* A non-empty sequence of strings that printSlice lays out (not folded).
StringSequence(v) ==
    /\ v.kind \in {"slice", "array"}
    /\ v.ekind = "string"
    /\ v.len > 0
    /\ ~Folded(v)

\* The length of the longest string of a sequence of strings.
Longest(v) ==
    LET lens == {Len(Index(v, i).chars) : i \in 0..(v.len - 1)}
    IN  CHOOSE m \in lens : \A l \in lens : l <= m

\* C14: a non-empty sequence of strings is laid out with the group size 36
\* divided by the length of its longest string; when every string is empty
\* (the divisor is zero) or the longest is longer than 36 the group size is 0
\* and the elements are rendered one per line; the render of such a sequence
\* never fails.
C14_StringGrouping ==
    /\ \A k \in 2..Len(stack) :
           LET f == stack[k]
           IN  (StringSequence(f.v) /\ f.pc \in {"inline", "grouped", "lines"})
                   => /\ f.gs = IF Longest(f.v) = 0 THEN 0
                                ELSE StringBudget \div Longest(f.v)
                      /\ f.gs = 0 => f.pc = "lines"
    /\ (status = "panic" /\ Top.pc # "done")
           => ~(StringSequence(NextArg(Top)) /\ ~NextArg(Top).ro)

\* The escape sequence ESC[<n>m.
Code(n) == <<"ESC[">> \o Decimal(n) \o <<"m">>

\* The parts of a scheme value: foreground (bits 0-3), background (bits 4-7)
\* and bold (bit 8).
ForegroundOf(color) == color % 16
BackgroundOf(color) == (color \div 16) % 16
BoldOf(color) == (color \div 256) % 2

\* The ANSI codes of the set parts: 30.. for the foreground index 1.., 40..
\* for the background index 1.., 1 for bold.
CodesOf(color) ==
    (IF ForegroundOf(color) > 0 THEN Code(30 + ForegroundOf(color) - 1)
     ELSE <<>>)
    \o (IF BackgroundOf(color) > 0 THEN Code(40 + BackgroundOf(color) - 1)
        ELSE <<>>)
    \o (IF BoldOf(color) > 0 THEN Code(1) ELSE <<>>)

\* C15: a token colorized with a scheme value whose foreground, background
\* and bold parts are all zero, or by a Printer without a scheme, is the
\* token itself; otherwise it is the ANSI codes of the set parts (foreground,
\* background, bold), the token, and the reset sequence ESC[0m.
C15_Colorization ==
    (status = "done" /\ root \in Tokens)
        => LET token == raw(cfg, root)
           IN  IF cfg.colorScheme = "nil" \/ CodesOf(cfg.color) = <<>>
               THEN out = token
               ELSE out = CodesOf(cfg.color) \o token \o Code(0)

\* A token was colorized with a background and bold and no foreground.
C15_Witness ==
    /\ status = "done"
    /\ cfg.colorScheme = "uniform"
    /\ cfg.color = NoColor + 256 + 16 * 8
    /\ root = VInt(7)
    /\ out = <<"ESC[", "4", "7", "m", "ESC[", "1", "m", "7", "ESC[", "0", "m">>

====
